---- MODULE Spec2Model ----
(***************************************************************************)
(* Model of the ScrapeX backend call path:                                 *)
(*   scrapex-backend/autonomous_caller.py  (CallRecord,                    *)
(*                                          AutonomousCallManager)         *)
(*   scrapex-backend/main.py               (the /api/v1/call endpoints)    *)
(*                                                                         *)
(* Strings that the code inspects character by character (phone numbers)   *)
(* are sequences of one-character strings.  Optional values (Python's      *)
(* None) are sequences of length 0 or 1: None is << >>, a value v is <<v>>.*)
(***************************************************************************)
EXTENDS Integers, Sequences, FiniteSets, TLC

\* ------------------------------------------------------------------------
\* Bounds of the model
\* ------------------------------------------------------------------------

\* number of /api/v1/call requests the clients send in one behaviour
MaxCalls == 2

\* number of requests accepted by the server whose handler has not run yet
MaxInflight == 2

\* number of distinct values uuid4().hex[:12] can take in the model
MaxIds == 2

\* ------------------------------------------------------------------------
\* Values
\* ------------------------------------------------------------------------

None == << >>

Some(v) == << v >>

\* CallStatus (enum values)
PENDING == "pending"

INITIATED == "initiated"

RINGING == "ringing"

IN_PROGRESS == "in_progress"

COMPLETED == "completed"

FAILED == "failed"

NO_ANSWER == "no_answer"

VOICEMAIL == "voicemail"

DECLINED == "declined"

CallStatus ==
    { PENDING, INITIATED, RINGING, IN_PROGRESS, COMPLETED, FAILED,
      NO_ANSWER, VOICEMAIL, DECLINED }

\* the statuses the specification calls terminal
TerminalStatus == { COMPLETED, FAILED, NO_ANSWER, VOICEMAIL, DECLINED }

\* datetime.now().hour
Hours == 0 .. 23

\* the value of datetime.now().isoformat(); only its presence is observed
Timestamp == "isoformat"

\* the values f"call_{uuid.uuid4().hex[:12]}" can take
CallIds == 1 .. MaxIds

\* ------------------------------------------------------------------------
\* Inputs of the requests
\* ------------------------------------------------------------------------

\* "(555) 123-4567"
PhoneParen ==
    << "(", "5", "5", "5", ")", " ", "1", "2", "3", "-", "4", "5", "6", "7" >>

\* "+15551234567"
PhonePlus ==
    << "+", "1", "5", "5", "5", "1", "2", "3", "4", "5", "6", "7" >>

\* "123"
PhoneShort == << "1", "2", "3" >>

\* "+5551234567"
PhonePlusOnly ==
    << "+", "5", "5", "5", "1", "2", "3", "4", "5", "6", "7" >>

\* "(5551234567"
PhoneOpenParen ==
    << "(", "5", "5", "5", "1", "2", "3", "4", "5", "6", "7" >>

\* "55512345678"
PhoneEleven ==
    << "5", "5", "5", "1", "2", "3", "4", "5", "6", "7", "8" >>

\* "1 555.123.4567"
PhoneDots ==
    << "1", " ", "5", "5", "5", ".", "1", "2", "3", ".", "4", "5", "6", "7" >>

PhoneNumbers ==
    { PhoneParen, PhonePlus, PhoneShort, PhonePlusOnly, PhoneOpenParen,
      PhoneEleven, PhoneDots }

\* request.phone_number of the /api/v1/call requests
RequestPhones == { PhoneParen, PhoneShort }

FacilityNames == { "Clinic A", "Clinic B" }

\* ------------------------------------------------------------------------
\* _is_valid_phone: re.match(pattern, phone_number) with
\*   pattern = ^\+?1?\s*\(?(\d{3})\)?[-.\s]?(\d{3})[-.\s]?(\d{4})$
\* ------------------------------------------------------------------------

\* \d (ASCII digits)
Digit == { "0", "1", "2", "3", "4", "5", "6", "7", "8", "9" }

\* \s (ASCII whitespace)
Space == { " ", "\t", "\n", "\r", "\f" }

\* [-.\s]
Separator == { "-", "." } \cup Space

\* the pattern as a sequence of items: a character class and a quantifier
\* ("one" = exactly once, "opt" = ?, "star" = *)
pattern ==
    << [cls |-> { "+" }, q |-> "opt"],
       [cls |-> { "1" }, q |-> "opt"],
       [cls |-> Space, q |-> "star"],
       [cls |-> { "(" }, q |-> "opt"],
       [cls |-> Digit, q |-> "one"],
       [cls |-> Digit, q |-> "one"],
       [cls |-> Digit, q |-> "one"],
       [cls |-> { ")" }, q |-> "opt"],
       [cls |-> Separator, q |-> "opt"],
       [cls |-> Digit, q |-> "one"],
       [cls |-> Digit, q |-> "one"],
       [cls |-> Digit, q |-> "one"],
       [cls |-> Separator, q |-> "opt"],
       [cls |-> Digit, q |-> "one"],
       [cls |-> Digit, q |-> "one"],
       [cls |-> Digit, q |-> "one"],
       [cls |-> Digit, q |-> "one"] >>

\* $ without re.MULTILINE: the end of the string, or just before a newline
\* that is the last character of the string
AtEnd(s, i) ==
    \/ i = Len(s) + 1
    \/ i = Len(s) /\ s[i] = "\n"

RECURSIVE MatchFrom(_, _, _)
\* does pattern item k and what follows it match s from position i on
MatchFrom(s, i, k) ==
    IF k > Len(pattern)
    THEN AtEnd(s, i)
    ELSE LET here == i <= Len(s) /\ s[i] \in pattern[k].cls
         IN  CASE pattern[k].q = "one" ->
                    here /\ MatchFrom(s, i + 1, k + 1)
               [] pattern[k].q = "opt" ->
                    \/ here /\ MatchFrom(s, i + 1, k + 1)
                    \/ MatchFrom(s, i, k + 1)
               [] pattern[k].q = "star" ->
                    \/ here /\ MatchFrom(s, i + 1, k)
                    \/ MatchFrom(s, i, k + 1)

_is_valid_phone(phone_number) == MatchFrom(phone_number, 1, 1)

\* ------------------------------------------------------------------------
\* is_compliant_to_call
\* ------------------------------------------------------------------------

\* compliance = {'can_call': True, 'reasons': [], 'checks': {}}
NewCompliance == [can_call |-> TRUE, reasons |-> << >>, checks |-> << >>]

\* RecordCheck stopping at the first failed check: a later check is neither
\* recorded nor reported
RecordCheckShortCircuit(compliance, name, passed, reason) ==
    IF ~compliance.can_call
    THEN compliance
    ELSE IF ~passed
         THEN [can_call |-> FALSE,
               reasons |-> Append(compliance.reasons, reason),
               checks |-> compliance.checks @@ (name :> FALSE)]
         ELSE [compliance EXCEPT
                  !.checks = compliance.checks @@ (name :> TRUE)]

\* RecordCheck putting the reason of a failed check in front of the others
RecordCheckPrepends(compliance, name, passed, reason) ==
    IF ~passed
    THEN [can_call |-> FALSE,
          reasons |-> << reason >> \o compliance.reasons,
          checks |-> compliance.checks @@ (name :> FALSE)]
    ELSE [compliance EXCEPT !.checks = compliance.checks @@ (name :> TRUE)]

\* one if/else block of is_compliant_to_call: when the check fails,
\* can_call becomes False and the reason is appended; the check's result
\* is stored under its name in both branches
RecordCheck(compliance, name, passed, reason) ==
    IF ~passed
    THEN [can_call |-> FALSE,
          reasons |-> Append(compliance.reasons, reason),
          checks |-> compliance.checks @@ (name :> FALSE)]
    ELSE [compliance EXCEPT !.checks = compliance.checks @@ (name :> TRUE)]

\* DncCheck that never consults the list
DncCheckIgnoresList(phone_number, dnc) == TRUE

\* phone_number in self.do_not_call_list
DncCheck(phone_number, dnc) == phone_number \notin dnc

\* HoursCheck that closes at 8pm sharp
HoursCheckBeforeEight(current_hour) == ~(current_hour < 8 \/ current_hour >= 20)

\* not (current_hour < 8 or current_hour > 20)
HoursCheck(current_hour) == ~(current_hour < 8 \/ current_hour > 20)

is_compliant_to_call(phone_number, dnc, current_hour) ==
    LET c1 == RecordCheck(NewCompliance, "dnc_check",
                          DncCheck(phone_number, dnc),
                          "Number is on Do Not Call list")
        c2 == RecordCheck(c1, "format_check",
                          _is_valid_phone(phone_number),
                          "Invalid phone number format")
        c3 == RecordCheck(c2, "hours_check",
                          HoursCheck(current_hour),
                          "Outside business hours")
    IN  c3

\* ------------------------------------------------------------------------
\* CallRecord
\* ------------------------------------------------------------------------

\* CallRecord.__init__ with the id that _generate_call_id returned
CallRecord(id, facility_name, phone_number, analysis) ==
    [id |-> id,
     facility_name |-> facility_name,
     phone_number |-> phone_number,
     analysis |-> analysis,
     status |-> PENDING,
     created_at |-> Timestamp,
     started_at |-> None,
     ended_at |-> None,
     duration |-> None,
     call_transcript |-> None,
     call_recording_url |-> None,
     outcome |-> None,
     notes |-> None,
     ai_agent_script |-> None]

\* CallRecord.to_dict: every field but analysis
to_dict(c) ==
    [id |-> c.id,
     facility_name |-> c.facility_name,
     phone_number |-> c.phone_number,
     status |-> c.status,
     created_at |-> c.created_at,
     started_at |-> c.started_at,
     ended_at |-> c.ended_at,
     duration |-> c.duration,
     call_transcript |-> c.call_transcript,
     call_recording_url |-> c.call_recording_url,
     outcome |-> c.outcome,
     notes |-> c.notes,
     ai_agent_script |-> c.ai_agent_script]

\* outcomes with a call that was declined
outcomesWithDeclined ==
    << [status |-> COMPLETED, outcome |-> "interested", duration |-> 180],
       [status |-> COMPLETED, outcome |-> "not_interested", duration |-> 45],
       [status |-> NO_ANSWER, outcome |-> "no_answer", duration |-> 0],
       [status |-> DECLINED, outcome |-> "declined", duration |-> 5] >>

\* the outcomes list of _simulate_call
outcomes ==
    << [status |-> COMPLETED, outcome |-> "interested", duration |-> 180],
       [status |-> COMPLETED, outcome |-> "not_interested", duration |-> 45],
       [status |-> NO_ANSWER, outcome |-> "no_answer", duration |-> 0],
       [status |-> VOICEMAIL, outcome |-> "voicemail", duration |-> 30] >>

\* _generate_sample_transcript: the template filled with the facility name
\* and the script
_generate_sample_transcript(c) ==
    << "CALLER: Hello, this is an automated call from ScrapeX regarding",
       c.facility_name, "CALLER:", c.ai_agent_script,
       "RECIPIENT: [Response recorded]",
       "CALLER: Thank you for your time. Have a great day!" >>

\* analyzer.generate_call_script: the text of the script (no operation of
\* the call manager looks into it)
CallScripts == { "script" }

\* request.analysis_data
AnalysisData == { "analysis" }

\* call.sid of the telephony collaborator
TwilioSid == "CA0001"

\* str(e) of a failure of the telephony collaborator
TwilioError == "TwilioRestException"

\* ------------------------------------------------------------------------
\* State
\* ------------------------------------------------------------------------

VARIABLES
    twilio_client,      \* self.twilio_client is not None
    do_not_call_list,   \* self.do_not_call_list
    call_history,       \* self.call_history
    inflight,           \* /api/v1/call requests whose handler has not run
    received,           \* number of /api/v1/call requests sent so far
    compliant_calls,    \* number of trigger_call invocations past the gate
    pc,                 \* position of the running trigger_call, or "idle"
    request,            \* arguments of the running trigger_call, or None
    compliance,         \* compliance of the running trigger_call, or None
    call_record,        \* call_record of the running trigger_call, or None
    twilio_calls,       \* calls submitted to the telephony collaborator
    response,           \* the last response an endpoint returned, or None
    fn_in,              \* arguments of a function evaluated on its own
    fn_out,             \* its value, or None before the evaluation
    jobs_db,            \* jobs_db of main.py, in insertion order
    job_counter,        \* job_counter of main.py
    background_tasks,   \* background tasks added and not yet run
    jobs_response,      \* the last response of a job endpoint, or None
    scrape_result       \* what the scraper did for the last scrape task, or None

vars ==
    << twilio_client, do_not_call_list, call_history, inflight, received,
       compliant_calls, pc, request, compliance, call_record, twilio_calls,
       response, fn_in, fn_out, jobs_db, job_counter, background_tasks,
       jobs_response, scrape_result >>

\* the variables of the call manager and its endpoints
callVars ==
    << twilio_client, do_not_call_list, call_history, inflight, received,
       compliant_calls, pc, request, compliance, call_record, twilio_calls,
       response >>

\* the variables of a function evaluated on its own
fnVars == << fn_in, fn_out >>

\* the variables of the job endpoints
jobVars ==
    << jobs_db, job_counter, background_tasks, jobs_response, scrape_result >>

\* _load_do_not_call_list
_load_do_not_call_list == {}

\* AutonomousCallManager.__init__ and the module level of main.py: the
\* telephony client exists or not, depending on the credentials and on the
\* twilio library; the history is empty
InitCalls ==
    /\ twilio_client \in BOOLEAN
    /\ call_history = << >>
    /\ inflight = << >>
    /\ received = 0
    /\ compliant_calls = 0
    /\ pc = "idle"
    /\ request = None
    /\ compliance = None
    /\ call_record = None
    /\ twilio_calls = << >>
    /\ response = None
    /\ jobs_db = << >>
    /\ job_counter = 0
    /\ background_tasks = {}
    /\ jobs_response = None
    /\ scrape_result = None

Init ==
    /\ InitCalls
    /\ do_not_call_list = _load_do_not_call_list
    /\ fn_in = None
    /\ fn_out = None

\* ------------------------------------------------------------------------
\* POST /api/v1/call and AutonomousCallManager.trigger_call
\* ------------------------------------------------------------------------

\* a client sends POST /api/v1/call; the handler runs when the event loop
\* schedules it
post_call(facility_name, phone_number, analysis_data) ==
    /\ received < MaxCalls
    /\ Len(inflight) < MaxInflight
    /\ inflight' = Append(inflight,
                          [facility_name |-> facility_name,
                           phone_number |-> phone_number,
                           analysis_data |-> analysis_data])
    /\ received' = received + 1
    /\ UNCHANGED << twilio_client, do_not_call_list, call_history,
                    compliant_calls, pc, request, compliance, call_record,
                    twilio_calls, response >>
    /\ UNCHANGED << fnVars, jobVars >>

\* q without its i-th element
RemoveAt(q, i) == SubSeq(q, 1, i - 1) \o SubSeq(q, i + 1, Len(q))

\* the event loop runs the handler of one of the waiting requests (the
\* endpoint is a coroutine without await: no other handler runs before it
\* returns); main.py generates the script and calls trigger_call
trigger_call_begin(i, call_script) ==
    /\ pc = "idle"
    /\ i \in 1 .. Len(inflight)
    /\ inflight' = RemoveAt(inflight, i)
    /\ request' = Some([facility_name |-> inflight[i].facility_name,
                        phone_number |-> inflight[i].phone_number,
                        analysis |-> inflight[i].analysis_data,
                        call_script |-> call_script])
    /\ pc' = "called"
    /\ UNCHANGED << twilio_client, do_not_call_list, call_history, received,
                    compliant_calls, compliance, call_record, twilio_calls,
                    response >>
    /\ UNCHANGED << fnVars, jobVars >>

\* check_compliance that puts a refused number on the do-not-call list
check_compliance_blocks_number(current_hour) ==
    /\ pc = "called"
    /\ compliance' = Some(is_compliant_to_call(request[1].phone_number,
                                               do_not_call_list,
                                               current_hour))
    /\ do_not_call_list' =
           IF compliance'[1].can_call
           THEN do_not_call_list
           ELSE do_not_call_list \cup { request[1].phone_number }
    /\ pc' = "checked"
    /\ UNCHANGED << twilio_client, call_history, inflight,
                    received, compliant_calls, request, call_record,
                    twilio_calls, response >>
    /\ UNCHANGED << fnVars, jobVars >>

\* compliance = self.is_compliant_to_call(phone_number), at the hour the
\* wall clock shows
check_compliance(current_hour) ==
    /\ pc = "called"
    /\ compliance' = Some(is_compliant_to_call(request[1].phone_number,
                                               do_not_call_list,
                                               current_hour))
    /\ pc' = "checked"
    /\ UNCHANGED << twilio_client, do_not_call_list, call_history, inflight,
                    received, compliant_calls, request, call_record,
                    twilio_calls, response >>
    /\ UNCHANGED << fnVars, jobVars >>

\* what the /api/v1/call endpoint answers: the dictionary trigger_call
\* returned
CallResponse(value) == Some([op |-> "trigger_call", value |-> value])

\* the return of trigger_call when compliance['can_call'] is false
NotCompliantResponse(c) ==
    [success |-> FALSE,
     call_id |-> None,
     error |-> "Call not compliant with regulations",
     compliance_issues |-> c.reasons]

\* the handler has returned: its frame is gone
HandlerDone ==
    /\ pc' = "idle"
    /\ request' = None
    /\ compliance' = None
    /\ call_record' = None

\* return_not_compliant that keeps a record of the refused call
return_not_compliant_records ==
    /\ pc = "checked"
    /\ ~compliance[1].can_call
    /\ call_history' = Append(call_history,
                              CallRecord(1, request[1].facility_name,
                                         request[1].phone_number,
                                         request[1].analysis))
    /\ response' = CallResponse(NotCompliantResponse(compliance[1]))
    /\ HandlerDone
    /\ UNCHANGED << twilio_client, do_not_call_list, inflight, received,
                    compliant_calls, twilio_calls >>
    /\ UNCHANGED << fnVars, jobVars >>

\* if not compliance['can_call']: return
return_not_compliant ==
    /\ pc = "checked"
    /\ ~compliance[1].can_call
    /\ response' = CallResponse(NotCompliantResponse(compliance[1]))
    /\ HandlerDone
    /\ UNCHANGED << twilio_client, do_not_call_list, call_history, inflight,
                    received, compliant_calls, twilio_calls >>
    /\ UNCHANGED << fnVars, jobVars >>

\* call_record = CallRecord(...); call_record.ai_agent_script = call_script
\* with the id _generate_call_id drew
create_call_record(id) ==
    /\ pc = "checked"
    /\ compliance[1].can_call
    /\ call_record' = Some([CallRecord(id, request[1].facility_name,
                                       request[1].phone_number,
                                       request[1].analysis)
                              EXCEPT !.ai_agent_script =
                                         Some(request[1].call_script)])
    /\ compliant_calls' = compliant_calls + 1
    /\ pc' = "created"
    /\ UNCHANGED << twilio_client, do_not_call_list, call_history, inflight,
                    received, request, compliance, twilio_calls, response >>
    /\ UNCHANGED << fnVars, jobVars >>

\* _initiate_twilio_call up to self.twilio_client.calls.create, when the
\* collaborator accepts the call: it has seen the record as it is now
twilio_create_ok ==
    /\ pc = "created"
    /\ twilio_client
    /\ twilio_calls' = Append(twilio_calls,
                              [to |-> call_record[1].phone_number,
                               record |-> TRUE,
                               status_at_submission |-> call_record[1].status])
    /\ pc' = "submitted"
    /\ UNCHANGED << twilio_client, do_not_call_list, call_history, inflight,
                    received, compliant_calls, request, compliance,
                    call_record, response >>
    /\ UNCHANGED << fnVars, jobVars >>

\* the return of the except branch of trigger_call
ExceptionResponse(c, error) ==
    [success |-> FALSE, call_id |-> Some(c.id), error |-> error]

\* twilio_create_raise that stores the record as failed
twilio_create_raise_stores_failed ==
    /\ pc = "created"
    /\ twilio_client
    /\ call_history' = Append(call_history,
                              [call_record[1] EXCEPT !.status = FAILED])
    /\ response' = CallResponse(ExceptionResponse(call_record[1], TwilioError))
    /\ HandlerDone
    /\ UNCHANGED << twilio_client, do_not_call_list, inflight,
                    received, compliant_calls, twilio_calls >>
    /\ UNCHANGED << fnVars, jobVars >>

\* self.twilio_client.calls.create raises: _initiate_twilio_call re-raises,
\* the except branch of trigger_call returns; the append of the try block
\* is skipped and the record goes with the handler's frame
twilio_create_raise ==
    /\ pc = "created"
    /\ twilio_client
    /\ response' = CallResponse(ExceptionResponse(call_record[1], TwilioError))
    /\ HandlerDone
    /\ UNCHANGED << twilio_client, do_not_call_list, call_history, inflight,
                    received, compliant_calls, twilio_calls >>
    /\ UNCHANGED << fnVars, jobVars >>

\* MarkInitiated that forgets the status
MarkInitiatedKeepsStatus(c) == [c EXCEPT !.started_at = Some(Timestamp)]

\* call_record.status = CallStatus.INITIATED; call_record.started_at = now
MarkInitiated(c) ==
    [c EXCEPT !.status = INITIATED, !.started_at = Some(Timestamp)]

\* _initiate_twilio_call after calls.create returned
twilio_initiated ==
    /\ pc = "submitted"
    /\ call_record' = Some(MarkInitiated(call_record[1]))
    /\ pc' = "done"
    /\ UNCHANGED << twilio_client, do_not_call_list, call_history, inflight,
                    received, compliant_calls, request, compliance,
                    twilio_calls, response >>
    /\ UNCHANGED << fnVars, jobVars >>

\* the first two assignments of _simulate_call
simulate_call_initiated ==
    /\ pc = "created"
    /\ ~twilio_client
    /\ call_record' = Some(MarkInitiated(call_record[1]))
    /\ pc' = "simulating"
    /\ UNCHANGED << twilio_client, do_not_call_list, call_history, inflight,
                    received, compliant_calls, request, compliance,
                    twilio_calls, response >>
    /\ UNCHANGED << fnVars, jobVars >>

\* ApplyOutcome that writes a transcript whatever the outcome
ApplyOutcomeAlwaysTranscript(c, outcome) ==
    LET c1 == [c EXCEPT !.status = outcome.status,
                        !.duration = Some(outcome.duration),
                        !.outcome = Some(outcome.outcome),
                        !.ended_at = Some(Timestamp)]
    IN  [c1 EXCEPT !.call_transcript = Some(_generate_sample_transcript(c1))]

\* the record after _simulate_call applied the outcome random.choice gave
ApplyOutcome(c, outcome) ==
    LET c1 == [c EXCEPT !.status = outcome.status,
                        !.duration = Some(outcome.duration),
                        !.outcome = Some(outcome.outcome),
                        !.ended_at = Some(Timestamp)]
    IN  IF c1.status = COMPLETED
        THEN [c1 EXCEPT !.call_transcript =
                            Some(_generate_sample_transcript(c1))]
        ELSE c1

\* the rest of _simulate_call: random.choice(outcomes) is applied
simulate_call_outcome(k) ==
    /\ pc = "simulating"
    /\ k \in 1 .. Len(outcomes)
    /\ call_record' = Some(ApplyOutcome(call_record[1], outcomes[k]))
    /\ pc' = "done"
    /\ UNCHANGED << twilio_client, do_not_call_list, call_history, inflight,
                    received, compliant_calls, request, compliance,
                    twilio_calls, response >>
    /\ UNCHANGED << fnVars, jobVars >>

\* the dictionary _initiate_twilio_call returns
TwilioResponse(c) ==
    [success |-> TRUE,
     call_id |-> Some(c.id),
     twilio_call_sid |-> TwilioSid,
     status |-> c.status,
     facility_name |-> c.facility_name,
     phone_number |-> c.phone_number]

\* SimulatedResponse that reports the status the call started with
SimulatedResponseStaleStatus(c) ==
    [success |-> TRUE,
     call_id |-> Some(c.id),
     status |-> INITIATED,
     outcome |-> c.outcome,
     facility_name |-> c.facility_name,
     phone_number |-> c.phone_number,
     duration |-> c.duration,
     note |-> "Simulated call (Twilio not configured)"]

\* the dictionary _simulate_call returns
SimulatedResponse(c) ==
    [success |-> TRUE,
     call_id |-> Some(c.id),
     status |-> c.status,
     outcome |-> c.outcome,
     facility_name |-> c.facility_name,
     phone_number |-> c.phone_number,
     duration |-> c.duration,
     note |-> "Simulated call (Twilio not configured)"]

\* StoreCallRecord that inserts at the front
StoreCallRecordInFront(history, c) == << c >> \o history

\* self.call_history.append(call_record)
StoreCallRecord(history, c) == Append(history, c)

\* the end of the try block of trigger_call: the record is stored and the
\* result of the call is returned
trigger_call_return ==
    /\ pc = "done"
    /\ call_history' = StoreCallRecord(call_history, call_record[1])
    /\ response' = CallResponse(IF twilio_client
                                THEN TwilioResponse(call_record[1])
                                ELSE SimulatedResponse(call_record[1]))
    /\ HandlerDone
    /\ UNCHANGED << twilio_client, do_not_call_list, inflight, received,
                    compliant_calls, twilio_calls >>
    /\ UNCHANGED << fnVars, jobVars >>

\* ------------------------------------------------------------------------
\* get_call_history and get_call_statistics
\* ------------------------------------------------------------------------

\* HistoryOf that forgets the filter
HistoryOfIgnoresFilter(history, facility_name) ==
    [i \in 1 .. Len(history) |-> to_dict(history[i])]

RECURSIVE HistoryOf(_, _)
\* the loop of get_call_history over the records, first to last
HistoryOf(history, facility_name) ==
    IF history = << >>
    THEN << >>
    ELSE LET call == Head(history)
             rest == HistoryOf(Tail(history), facility_name)
         IN  IF facility_name = None \/ Some(call.facility_name) = facility_name
             THEN << to_dict(call) >> \o rest
             ELSE rest

\* CountStatus that counts every record
CountStatusAny(history, status) == Len(history)

\* sum(1 for c in self.call_history if c.status == status)
CountStatus(history, status) ==
    Cardinality({ i \in 1 .. Len(history) : history[i].status = status })

\* [c.duration for c in self.call_history if c.duration]: a duration that is
\* None or 0 is false
Durations(history) ==
    LET kept == SelectSeq(history,
                          LAMBDA c : c.duration # None /\ c.duration[1] # 0)
    IN  [i \in 1 .. Len(kept) |-> kept[i].duration[1]]

RECURSIVE Sum(_)
\* sum(durations)
Sum(xs) == IF xs = << >> THEN 0 ELSE Head(xs) + Sum(Tail(xs))

\* a quotient num / den of the float arithmetic, kept exact
Ratio(num, den) == [num |-> num, den |-> den]

\* StatusCounts with a key for every status of the enumeration
StatusCountsAllKeys(history) ==
    [s \in CallStatus |-> CountStatus(history, s)]

\* status_counts of get_call_statistics
StatusCounts(history) ==
    [s \in { history[i].status : i \in 1 .. Len(history) } |->
        CountStatus(history, s)]

\* the dictionary get_call_statistics returns
CallStatistics(history) ==
    IF history = << >>
    THEN [total_calls |-> 0,
          completed_calls |-> 0,
          failed_calls |-> 0,
          success_rate |-> Ratio(0, 1),
          average_duration |-> Ratio(0, 1),
          by_status |-> << >>]
    ELSE LET total == Len(history)
             completed == CountStatus(history, COMPLETED)
             failed == CountStatus(history, FAILED)
             durations == Durations(history)
         IN  [total_calls |-> total,
              completed_calls |-> completed,
              failed_calls |-> failed,
              success_rate |-> IF total > 0
                               THEN Ratio(completed * 100, total)
                               ELSE Ratio(0, 1),
              average_duration |-> IF durations # << >>
                                   THEN Ratio(Sum(durations), Len(durations))
                                   ELSE Ratio(0, 1),
              by_status |-> StatusCounts(history)]

\* facility_name of get_call_history: None or a name
HistoryFilters == { None } \cup { Some(f) : f \in FacilityNames }

get_call_history(facility_name) ==
    /\ pc = "idle"
    /\ response' = Some([op |-> "get_call_history",
                         facility_name |-> facility_name,
                         value |-> HistoryOf(call_history, facility_name)])
    /\ UNCHANGED << twilio_client, do_not_call_list, call_history, inflight,
                    received, compliant_calls, pc, request, compliance,
                    call_record, twilio_calls >>
    /\ UNCHANGED << fnVars, jobVars >>

get_call_statistics ==
    /\ pc = "idle"
    /\ response' = Some([op |-> "get_call_statistics",
                         value |-> CallStatistics(call_history)])
    /\ UNCHANGED << twilio_client, do_not_call_list, call_history, inflight,
                    received, compliant_calls, pc, request, compliance,
                    call_record, twilio_calls >>
    /\ UNCHANGED << fnVars, jobVars >>

\* ------------------------------------------------------------------------
\* Specifications
\* ------------------------------------------------------------------------

Next ==
    \/ \E f \in FacilityNames, p \in RequestPhones, a \in AnalysisData :
          post_call(f, p, a)
    \/ \E i \in 1 .. MaxInflight, s \in CallScripts :
          trigger_call_begin(i, s)
    \/ \E h \in Hours : check_compliance(h)
    \/ return_not_compliant
    \/ \E id \in CallIds : create_call_record(id)
    \/ twilio_create_ok
    \/ twilio_create_raise
    \/ twilio_initiated
    \/ simulate_call_initiated
    \/ \E k \in 1 .. Len(outcomes) : simulate_call_outcome(k)
    \/ trigger_call_return
    \/ \E f \in HistoryFilters : get_call_history(f)
    \/ get_call_statistics

\* the backend as main.py constructs it
Spec == Init /\ [][Next]_vars

\* the do-not-call sets a deployment can load
DncLists == SUBSET RequestPhones

\* the backend with a manager whose do-not-call set has been loaded
InitDnc ==
    /\ InitCalls
    /\ do_not_call_list \in DncLists
    /\ fn_in = None
    /\ fn_out = None

SpecDnc == InitDnc /\ [][Next]_vars

\* is_compliant_to_call on its own, as a function of the phone number, the
\* do-not-call set and the hour
InitGate ==
    /\ InitCalls
    /\ do_not_call_list \in SUBSET PhoneNumbers
    /\ fn_in \in { Some([phone_number |-> p, current_hour |-> h]) :
                      p \in PhoneNumbers, h \in Hours }
    /\ fn_out = None

EvalGate ==
    /\ fn_out = None
    /\ fn_out' = Some(is_compliant_to_call(fn_in[1].phone_number,
                                           do_not_call_list,
                                           fn_in[1].current_hour))
    /\ UNCHANGED fn_in
    /\ UNCHANGED << callVars, jobVars >>

NextGate == EvalGate

SpecGate == InitGate /\ [][NextGate]_vars

\* ------------------------------------------------------------------------
\* Properties
\* ------------------------------------------------------------------------

\* the dictionary of the last /api/v1/call response, when there is one
IsCallResponse == response # None /\ response[1].op = "trigger_call"

\* C1: a trigger_call whose compliance has can_call = false creates no
\* CallRecord, leaves the history as it was from its start to its return,
\* and returns success = false, call_id = None and the reasons of the gate
\* as compliance_issues
C1_NonCompliantLeavesNoTrace ==
    [][ /\ pc' \in { "called", "checked" } =>
              call_history' = call_history /\ call_record' = None
        /\ (pc = "checked" /\ ~compliance[1].can_call /\ pc' # pc) =>
              /\ pc' = "idle"
              /\ call_history' = call_history
              /\ call_record = None
              /\ call_record' = None
              /\ response'[1].op = "trigger_call"
              /\ response'[1].value.success = FALSE
              /\ response'[1].value.call_id = None
              /\ response'[1].value.compliance_issues = compliance[1].reasons
      ]_vars

\* a refused call has returned while the history holds a record
C1_Witness ==
    /\ IsCallResponse
    /\ "compliance_issues" \in DOMAIN response[1].value
    /\ response[1].value.compliance_issues # << >>
    /\ Len(call_history) = 1
    /\ pc = "idle"

\* C2: every trigger_call that passed the gate appends exactly one record:
\* at its return the history is one longer than before
C2_CompliantAppendsOne ==
    [][ (pc \notin { "idle", "called" } /\ compliance[1].can_call
         /\ pc' = "idle") =>
              Len(call_history') = Len(call_history) + 1
      ]_vars

\* C3: when the telephony collaborator fails, trigger_call returns a failure
\* with the id of the record and the error text, and the record is in the
\* history with the status it had reached
C3_FailedSubmissionKeepsRecord ==
    [][ (pc = "created" /\ pc' = "idle") =>
              /\ response'[1].value.success = FALSE
              /\ response'[1].value.call_id = Some(call_record[1].id)
              /\ response'[1].value.error = TwilioError
              /\ \E i \in 1 .. Len(call_history') :
                    call_history'[i] = call_record[1]
      ]_vars

\* C4: no two records of the history have the same id
C4_IdsUnique ==
    \A i, j \in 1 .. Len(call_history) :
        i # j => call_history[i].id # call_history[j].id

\* the order of the statuses: pending, initiated, ringing, in_progress, then
\* the terminal ones
StatusRank(status) ==
    CASE status = PENDING -> 0
      [] status = INITIATED -> 1
      [] status = RINGING -> 2
      [] status = IN_PROGRESS -> 3
      [] status \in TerminalStatus -> 4

\* a record may keep its status, go from pending to initiated, or go forward
\* from initiated, ringing or in_progress
StatusStep(a, b) ==
    \/ a = b
    \/ a = PENDING /\ b = INITIATED
    \/ /\ a \in { INITIATED, RINGING, IN_PROGRESS }
       /\ StatusRank(b) > StatusRank(a)

\* C5: a record starts in pending, its status changes only along
\* pending -> initiated -> (ringing -> in_progress ->) terminal, it enters
\* the history with the status it reached, and a record of the history
\* whose status is terminal keeps it
C5_StatusTransitions ==
    [][ /\ (call_record = None /\ call_record' # None) =>
              call_record'[1].status = PENDING
        /\ (call_record # None /\ call_record' # None) =>
              StatusStep(call_record[1].status, call_record'[1].status)
        /\ Len(call_history') > Len(call_history) =>
              /\ call_record # None
              /\ call_history'[Len(call_history')].status =
                    call_record[1].status
        /\ \A i \in 1 .. Len(call_history) :
              call_history[i].status \in TerminalStatus =>
                  /\ i <= Len(call_history')
                  /\ call_history'[i].status = call_history[i].status
      ]_vars

\* a simulated call reached a terminal status and is in the history, and a
\* second call has been made since
C5_Witness ==
    /\ Len(call_history) = 2
    /\ call_history[1].status \in TerminalStatus
    /\ call_history[1].started_at # None

\* C6: the history before a step is a prefix of the history after it
C6_AppendOnly ==
    [][ /\ Len(call_history') >= Len(call_history)
        /\ SubSeq(call_history', 1, Len(call_history)) = call_history
      ]_vars

\* the history holds two different records and has been read
C6_Witness ==
    /\ Len(call_history) = 2
    /\ call_history[1] # call_history[2]
    /\ response # None
    /\ response[1].op \in { "get_call_history", "get_call_statistics" }

\* C7: once every request has been handled, the history holds one record
\* per trigger_call that passed the gate
C7_OneRecordPerCompliantCall ==
    (pc = "idle" /\ inflight = << >>) => Len(call_history) = compliant_calls

\* the value of is_compliant_to_call, when it has been evaluated
GateEvaluated == fn_out # None

\* C8: the result holds the three checks, each with the value of its own
\* test whatever the earlier ones gave, and can_call is their conjunction
C8_AllChecksReported ==
    GateEvaluated =>
        LET r == fn_out[1]
            p == fn_in[1].phone_number
            h == fn_in[1].current_hour
        IN  /\ DOMAIN r.checks = { "dnc_check", "format_check", "hours_check" }
            /\ r.checks.dnc_check = (p \notin do_not_call_list)
            /\ r.checks.format_check = _is_valid_phone(p)
            /\ r.checks.hours_check = (h >= 8 /\ h <= 20)
            /\ r.can_call = /\ r.checks.dnc_check
                            /\ r.checks.format_check
                            /\ r.checks.hours_check

\* the three checks failed together
C8_Witness ==
    /\ GateEvaluated
    /\ DOMAIN fn_out[1].checks = { "dnc_check", "format_check", "hours_check" }
    /\ ~fn_out[1].checks.dnc_check
    /\ ~fn_out[1].checks.format_check
    /\ ~fn_out[1].checks.hours_check

\* C9: reasons holds one entry for each check that failed, in the order
\* DNC, format, hours, and nothing else; it is empty exactly when can_call
C9_ReasonsPerFailedCheck ==
    GateEvaluated =>
        LET r == fn_out[1]
            ReasonOf(name, reason) ==
                IF r.checks[name] THEN << >> ELSE << reason >>
        IN  /\ r.reasons =
                   ReasonOf("dnc_check", "Number is on Do Not Call list")
                   \o ReasonOf("format_check", "Invalid phone number format")
                   \o ReasonOf("hours_check", "Outside business hours")
            /\ (r.reasons = << >>) <=> r.can_call

\* two checks failed and one passed
C9_Witness ==
    /\ GateEvaluated
    /\ Len(fn_out[1].reasons) = 2
    /\ fn_out[1].checks.dnc_check
    /\ ~fn_out[1].can_call

\* C10: for a number of the do-not-call set the gate gives can_call = false
\* and dnc_check = false whatever the format and the hour, and the
\* trigger_call on it leaves the history as it was
C10_DncNeverCalled ==
    [][ /\ (pc = "called" /\ pc' = "checked"
            /\ request[1].phone_number \in do_not_call_list) =>
              /\ ~compliance'[1].can_call
              /\ compliance'[1].checks.dnc_check = FALSE
        /\ (request # None /\ request[1].phone_number \in do_not_call_list) =>
              /\ call_history' = call_history
              /\ pc' \in { "called", "checked", "idle" }
      ]_vars

\* a well-formed number of the do-not-call set was refused during the
\* business hours
C10_Witness ==
    /\ IsCallResponse
    /\ "compliance_issues" \in DOMAIN response[1].value
    /\ response[1].value.compliance_issues =
          << "Number is on Do Not Call list" >>
    /\ do_not_call_list # {}

\* C11: hours_check is true exactly for the hours 8 .. 20; at every other
\* hour can_call is false and 'Outside business hours' is among the reasons
C11_BusinessHours ==
    GateEvaluated =>
        LET r == fn_out[1]
            h == fn_in[1].current_hour
        IN  /\ r.checks.hours_check <=> h \in 8 .. 20
            /\ h \in (0 .. 7) \cup (21 .. 23) =>
                  /\ ~r.checks.hours_check
                  /\ ~r.can_call
                  /\ \E i \in 1 .. Len(r.reasons) :
                        r.reasons[i] = "Outside business hours"

\* the gate let a well-formed number through at hour 20
C11_Witness ==
    /\ GateEvaluated
    /\ fn_in[1].current_hour = 20
    /\ fn_out[1].checks.hours_check
    /\ fn_out[1].can_call

\* the strings the format is meant to accept: an optional "+1" or "1", any
\* white space, then ten digits grouped 3-3-4, the first group optionally
\* in a pair of parentheses, the groups optionally one separator apart
WellFormedPhone(s) ==
    \E prefix \in { << >>, << "+", "1" >>, << "1" >> },
       spaces \in 0 .. Len(s),
       paren \in { 0, 1 },
       sep1 \in { 0, 1 },
       sep2 \in { 0, 1 } :
        LET a == Len(prefix) + spaces      \* what precedes the area code
            b == a + paren                 \* ... its first digit
            c == b + 3 + paren             \* ... the first separator
            d == c + sep1                  \* ... the second group
            e == d + 3                     \* ... the second separator
            f == e + sep2                  \* ... the last group
        IN  /\ Len(s) = f + 4
            /\ SubSeq(s, 1, Len(prefix)) = prefix
            /\ \A i \in Len(prefix) + 1 .. a : s[i] \in Space
            /\ paren = 1 => s[a + 1] = "(" /\ s[b + 4] = ")"
            /\ \A i \in b + 1 .. b + 3 : s[i] \in Digit
            /\ sep1 = 1 => s[c + 1] \in Separator
            /\ \A i \in d + 1 .. d + 3 : s[i] \in Digit
            /\ sep2 = 1 => s[e + 1] \in Separator
            /\ \A i \in f + 1 .. f + 4 : s[i] \in Digit

\* C12: format_check is true exactly for the well-formed strings, and a
\* string that is not well-formed cannot be called
C12_FormatExactlyWellFormed ==
    GateEvaluated =>
        LET r == fn_out[1]
            p == fn_in[1].phone_number
        IN  /\ r.checks.format_check <=> WellFormedPhone(p)
            /\ ~WellFormedPhone(p) => ~r.can_call

\* C13: a record the simulator appended has a terminal status, started_at
\* and ended_at set, and a transcript exactly when it is completed
C13_SimulatedRecordComplete ==
    ~twilio_client =>
        \A i \in 1 .. Len(call_history) :
            LET c == call_history[i]
            IN  /\ c.status \in TerminalStatus
                /\ c.started_at # None
                /\ c.ended_at # None
                /\ c.call_transcript # None <=> c.status = COMPLETED

\* the simulator appended a completed call and one that was not answered
C13_Witness ==
    /\ ~twilio_client
    /\ \E i \in 1 .. Len(call_history) :
          call_history[i].status = COMPLETED
    /\ \E i \in 1 .. Len(call_history) :
          call_history[i].status = NO_ANSWER

\* the value of the last response, when get_call_history returned it
IsHistoryResponse == response # None /\ response[1].op = "get_call_history"

\* the value of the last response, when get_call_statistics returned it
IsStatisticsResponse ==
    response # None /\ response[1].op = "get_call_statistics"

\* C14: get_call_history returns all the records in the order of the
\* history when there is no filter, and the records of the given facility
\* name, in that order, when there is one; each record of the history is
\* among those returned for its own facility name
C14_HistoryRetrieval ==
    /\ IsHistoryResponse =>
          LET f == response[1].facility_name
              kept == IF f = None
                      THEN call_history
                      ELSE SelectSeq(call_history,
                                     LAMBDA c : c.facility_name = f[1])
          IN  /\ Len(response[1].value) = Len(kept)
              /\ \A i \in 1 .. Len(kept) :
                    /\ response[1].value[i].id = kept[i].id
                    /\ response[1].value[i].facility_name =
                          kept[i].facility_name
                    /\ response[1].value[i].status = kept[i].status
                    /\ response[1].value[i] = to_dict(kept[i])
    /\ \A i \in 1 .. Len(call_history) :
          LET own == HistoryOf(call_history,
                               Some(call_history[i].facility_name))
          IN  \E j \in 1 .. Len(own) : own[j] = to_dict(call_history[i])

\* the history of one facility was read while the history held a record of
\* each of two facilities
C14_Witness ==
    /\ IsHistoryResponse
    /\ response[1].facility_name # None
    /\ Len(call_history) = 2
    /\ call_history[1].facility_name # call_history[2].facility_name
    /\ Len(response[1].value) = 1

\* C15: the statistics give the number of records, of completed ones and of
\* failed ones, and success_rate = completed / total * 100; on the empty
\* history everything is 0 and by_status is empty
C15_StatisticsCounts ==
    IsStatisticsResponse =>
        LET v == response[1].value
            total == Len(call_history)
            completed ==
                Len(SelectSeq(call_history, LAMBDA c : c.status = COMPLETED))
            failed ==
                Len(SelectSeq(call_history, LAMBDA c : c.status = FAILED))
        IN  /\ v.total_calls = total
            /\ v.completed_calls = completed
            /\ v.failed_calls = failed
            /\ total > 0 =>
                  v.success_rate.num * total =
                      completed * 100 * v.success_rate.den
            /\ total = 0 =>
                  /\ v.success_rate.num = 0
                  /\ v.average_duration.num = 0
                  /\ v.by_status = << >>

\* the statistics were read while one of two records was completed
C15_Witness ==
    /\ IsStatisticsResponse
    /\ response[1].value.total_calls = 2
    /\ response[1].value.completed_calls = 1

\* the durations of the records that have one
NonNullDurations(history) ==
    LET kept == SelectSeq(history, LAMBDA c : c.duration # None)
    IN  [i \in 1 .. Len(kept) |-> kept[i].duration[1]]

\* C16: average_duration is the sum of the durations that are not None,
\* those that are 0 included, divided by their number; 0 when there is none
C16_AverageDuration ==
    IsStatisticsResponse =>
        LET v == response[1].value
            ds == NonNullDurations(call_history)
        IN  IF ds = << >>
            THEN v.average_duration.num = 0
            ELSE v.average_duration.num * Len(ds) =
                     Sum(ds) * v.average_duration.den

\* C17: the keys of by_status are the statuses that occur in the history,
\* each with its number of occurrences, none with 0, and the counts add up
\* to total_calls
C17_ByStatus ==
    IsStatisticsResponse =>
        LET v == response[1].value
            occurring ==
                { call_history[i].status : i \in 1 .. Len(call_history) }
            CountOf(st) ==
                Len(SelectSeq(call_history, LAMBDA c : c.status = st))
            counts == [i \in 1 .. Len(call_history) |->
                          IF \A j \in 1 .. i - 1 :
                                call_history[j].status # call_history[i].status
                          THEN v.by_status[call_history[i].status]
                          ELSE 0]
        IN  /\ DOMAIN v.by_status = occurring
            /\ \A st \in DOMAIN v.by_status :
                  v.by_status[st] = CountOf(st) /\ v.by_status[st] > 0
            /\ Sum(counts) = v.total_calls

\* the statistics were read while the history held two statuses
C17_Witness ==
    /\ IsStatisticsResponse
    /\ Cardinality(DOMAIN response[1].value.by_status) = 2

\* ------------------------------------------------------------------------
\* HealthcareAIAnalyzer (scrapex-backend/ai_analysis_engine.py)
\* ------------------------------------------------------------------------

\* number of tokens of the text the AI collaborator returns
MaxTextLen == 3

\* the percentages a website_quality can carry
QualityPercentages == 0 .. 100

\* the percentages tried together with the AI collaborator
SampleQualityPercentages == { 0, 45, 100 }

\* facility_data['address']: absent, empty, or a text
Addresses == { None, Some(""), Some("123 Main St") }

\* facility_data['phone'] and facility_data['services']
PhoneLists == { << >>, << "(555) 123-4567" >> }

ServiceLists == { << >>, << "Primary Care" >> }

\* the facility records of the scraper with the given quality percentages
FacilityRecords(percentages) ==
    [facility_name : { Some("Clinic A") },
     url : { Some("https://example-clinic.com") },
     phone : PhoneLists,
     address : Addresses,
     services : ServiceLists,
     website_quality : [percentage : percentages]]

\* int(x) of the quotient n / d: the fraction is dropped, towards zero
IntTruncRounds(n, d) == (n + d \div 2) \div d

IntTrunc(n, d) == IF n >= 0 THEN n \div d ELSE -((-n) \div d)

\* min(lead_score, 100)
Min(a, b) == IF a < b THEN a ELSE b

\* the truth value Python gives a list or a string or None
Truthy(v) == v # None /\ v # << >> /\ v # Some("")

\* lead_score of _generate_basic_analysis
BasicLeadScore(facility_data) ==
    LET s0 == 50
        s1 == IF Truthy(facility_data.phone) THEN s0 + 10 ELSE s0
        s2 == IF Truthy(facility_data.address) THEN s1 + 10 ELSE s1
        s3 == IF Truthy(facility_data.services) THEN s2 + 15 ELSE s2
        quality == facility_data.website_quality.percentage
        s4 == s3 + IntTrunc(quality, 10)
    IN  Min(s4, 100)

_generate_basic_analysis(facility_data) ==
    LET lead_score == BasicLeadScore(facility_data)
    IN  [facility_name |-> facility_data.facility_name,
         url |-> facility_data.url,
         analyzed_at |-> Timestamp,
         analysis |->
             [revenue_opportunities |->
                  << "Improved online presence", "Better contact methods" >>,
              operational_gaps |-> << "Limited online booking" >>,
              lead_score |-> lead_score,
              urgency |-> "medium"],
         lead_score |-> lead_score,
         urgency |-> "medium",
         revenue_opportunities |->
             << "Improved online presence", "Better contact methods" >>,
         operational_gaps |-> << "Limited online booking" >>,
         recommended_pitch |->
             "We help healthcare facilities improve patient engagement.",
         note |-> "Basic analysis (AI not available)"]

\* the text of the AI collaborator is a sequence of tokens: a brace, some
\* prose, or a member "lead_score": value of a JSON object
OpenBrace == [t |-> "{", value |-> 0]

CloseBrace == [t |-> "}", value |-> 0]

Prose == [t |-> "prose", value |-> 0]

LeadScoreMember(value) == [t |-> "lead_score", value |-> value]

\* the lead_score values the AI collaborator writes
AiLeadScores == { 85, 150 }

Tokens ==
    { OpenBrace, CloseBrace, Prose } \cup
    { LeadScoreMember(v) : v \in AiLeadScores }

\* the texts of at most MaxTextLen tokens
AiTexts == UNION { [1 .. n -> Tokens] : n \in 0 .. MaxTextLen }

\* the result of a call: a value, or an exception
Returned(value) == [raised |-> FALSE, value |-> value]

Raised(error) == [raised |-> TRUE, value |-> error]

\* analysis_text.find('{') and analysis_text.rfind('}'), counted from 0;
\* -1 when there is none
Find(text, token) ==
    IF \E i \in 1 .. Len(text) : text[i] = token
    THEN (CHOOSE i \in 1 .. Len(text) :
              /\ text[i] = token
              /\ \A j \in 1 .. i - 1 : text[j] # token) - 1
    ELSE -1

RFind(text, token) ==
    IF \E i \in 1 .. Len(text) : text[i] = token
    THEN (CHOOSE i \in 1 .. Len(text) :
              /\ text[i] = token
              /\ \A j \in i + 1 .. Len(text) : text[j] # token) - 1
    ELSE -1

\* json.loads that reads every text as an empty object
JsonLoadsLenient(json_str) == Returned([k \in {} |-> 0])

\* json.loads of a text: an object is a brace, members, a brace; the last
\* member of a key wins; anything else is a JSONDecodeError
JsonLoads(json_str) ==
    IF /\ Len(json_str) >= 2
       /\ json_str[1] = OpenBrace
       /\ json_str[Len(json_str)] = CloseBrace
       /\ \A i \in 2 .. Len(json_str) - 1 : json_str[i].t = "lead_score"
    THEN Returned([k \in { json_str[i].t : i \in 2 .. Len(json_str) - 1 } |->
                      json_str[CHOOSE i \in 2 .. Len(json_str) - 1 :
                                  /\ json_str[i].t = k
                                  /\ \A j \in i + 1 .. Len(json_str) - 1 :
                                        json_str[j].t # k].value])
    ELSE Raised("JSONDecodeError")

\* dict.get(key, default)
Get(dict, key, default) == IF key \in DOMAIN dict THEN dict[key] ELSE default

_parse_analysis(analysis_text, facility_data) ==
    LET json_start == Find(analysis_text, OpenBrace)
        json_end == RFind(analysis_text, CloseBrace) + 1
        loaded ==
            IF json_start >= 0 /\ json_end > json_start
            THEN JsonLoads(SubSeq(analysis_text, json_start + 1, json_end))
            ELSE Returned([raw_analysis |-> analysis_text])
    IN  IF loaded.raised
        THEN [facility_name |-> facility_data.facility_name,
              url |-> facility_data.url,
              analyzed_at |-> Timestamp,
              raw_analysis |-> analysis_text,
              lead_score |-> 0]
        ELSE LET analysis_json == loaded.value
             IN  [facility_name |-> facility_data.facility_name,
                  url |-> facility_data.url,
                  analyzed_at |-> Timestamp,
                  analysis |-> analysis_json,
                  lead_score |-> Get(analysis_json, "lead_score", 0),
                  urgency |-> Get(analysis_json, "urgency", "medium"),
                  revenue_opportunities |->
                      Get(analysis_json, "revenue_opportunities", << >>),
                  operational_gaps |->
                      Get(analysis_json, "operational_gaps", << >>),
                  recommended_pitch |->
                      Get(analysis_json, "recommended_pitch", "")]

\* what self.client.messages.create and response.content[0].text give: the
\* text, or an exception
AiAnswers == { Raised(<< >>) } \cup { Returned(t) : t \in AiTexts }

\* analyze_facility that lets the failure of the collaborator through
analyze_facility_propagates(client, ai_answer, facility_data) ==
    IF ~client
    THEN Returned(_generate_basic_analysis(facility_data))
    ELSE IF ai_answer.raised
         THEN ai_answer
         ELSE Returned(_parse_analysis(ai_answer.value, facility_data))

\* analyze_facility: without a client the basic analysis; otherwise the
\* parsed answer of the collaborator, and the basic analysis when anything
\* in the try block raises
analyze_facility(client, ai_answer, facility_data) ==
    IF ~client
    THEN Returned(_generate_basic_analysis(facility_data))
    ELSE IF ai_answer.raised
         THEN Returned(_generate_basic_analysis(facility_data))
         ELSE Returned(_parse_analysis(ai_answer.value, facility_data))

\* _generate_basic_analysis on its own, for every facility record
InitBaseline ==
    /\ InitCalls
    /\ do_not_call_list = _load_do_not_call_list
    /\ fn_in \in { Some([facility_data |-> fd]) :
                      fd \in FacilityRecords(QualityPercentages) }
    /\ fn_out = None

EvalBaseline ==
    /\ fn_out = None
    /\ fn_out' = Some(_generate_basic_analysis(fn_in[1].facility_data))
    /\ UNCHANGED fn_in
    /\ UNCHANGED << callVars, jobVars >>

NextBaseline == EvalBaseline

SpecBaseline == InitBaseline /\ [][NextBaseline]_vars

\* analyze_facility on its own: the analyzer has a client or not, and the
\* collaborator answers with a text or fails
InitAnalyzer ==
    /\ InitCalls
    /\ do_not_call_list = _load_do_not_call_list
    /\ fn_in \in { Some([client |-> c, ai_answer |-> a, facility_data |-> fd]) :
                      c \in BOOLEAN, a \in AiAnswers,
                      fd \in FacilityRecords(SampleQualityPercentages) }
    /\ fn_out = None

EvalAnalyzer ==
    /\ fn_out = None
    /\ fn_out' = Some(analyze_facility(fn_in[1].client, fn_in[1].ai_answer,
                                       fn_in[1].facility_data))
    /\ UNCHANGED fn_in
    /\ UNCHANGED << callVars, jobVars >>

NextAnalyzer == EvalAnalyzer

SpecAnalyzer == InitAnalyzer /\ [][NextAnalyzer]_vars

\* ------------------------------------------------------------------------
\* Properties of the analyzer
\* ------------------------------------------------------------------------

\* 1 when the condition holds, 0 otherwise
Indicator(b) == IF b THEN 1 ELSE 0

\* the score of the scoring rule: 50, 10 for a phone list with an entry, 10
\* for an address text, 15 for a service list with an entry, and a tenth of
\* the quality percentage rounded down, at most 100
RuleScore(fd) ==
    LET sum == 50 + 10 * Indicator(Len(fd.phone) > 0)
                  + 10 * Indicator(fd.address \notin { None, Some("") })
                  + 15 * Indicator(Len(fd.services) > 0)
                  + (fd.website_quality.percentage \div 10)
    IN  IF sum > 100 THEN 100 ELSE sum

\* the facility of the worked example: a phone, an address, a service and a
\* quality of 45 percent
IsExampleFacility(fd) ==
    /\ fd.phone = << "(555) 123-4567" >>
    /\ fd.address = Some("123 Main St")
    /\ fd.services = << "Primary Care" >>
    /\ fd.website_quality.percentage = 45

\* C18: the baseline scorer gives min(100, 50 + 10*[phone list non-empty]
\* + 10*[address present] + 15*[services non-empty]
\* + floor(quality_percentage / 10)), a value within 0..100 that depends on
\* the facility record only, and 89 for the example facility
C18_BaselineScore ==
    fn_out # None =>
        LET fd == fn_in[1].facility_data
            result == fn_out[1]
        IN  /\ result.lead_score = RuleScore(fd)
            /\ result.lead_score \in 0 .. 100
            /\ IsExampleFacility(fd) => result.lead_score = 89

C18_Witness ==
    /\ fn_out # None
    /\ IsExampleFacility(fn_in[1].facility_data)
    /\ fn_out[1].lead_score = 89

\* C19: analyze_facility never raises, and when the analyzer has no client
\* or the call of the collaborator fails, the result is the baseline
\* analysis of the facility: the baseline score and urgency medium
C19_NeverRaisesFallsBack ==
    fn_out # None =>
        LET in == fn_in[1]
            out == fn_out[1]
        IN  /\ ~out.raised
            /\ "lead_score" \in DOMAIN out.value
            /\ (~in.client \/ in.ai_answer.raised) =>
                   /\ out.value.lead_score = RuleScore(in.facility_data)
                   /\ out.value.urgency = "medium"
                   /\ out.value.facility_name = in.facility_data.facility_name
                   /\ out.value.url = in.facility_data.url

C19_Witness ==
    /\ fn_out # None
    /\ fn_in[1].client
    /\ fn_in[1].ai_answer.raised
    /\ IsExampleFacility(fn_in[1].facility_data)
    /\ ~fn_out[1].raised
    /\ fn_out[1].value.lead_score = 89
    /\ fn_out[1].value.urgency = "medium"

\* C20: every analysis analyze_facility returns, from the answer of the
\* collaborator, from the baseline or after a parse failure, has a
\* lead_score within 0..100
C20_LeadScoreInRange ==
    (fn_out # None /\ ~fn_out[1].raised) =>
        fn_out[1].value.lead_score \in 0 .. 100

\* the text between the braces is a JSON object: only members
IsObjectText(text) ==
    /\ Len(text) >= 2
    /\ text[1].t = "{"
    /\ text[Len(text)].t = "}"
    /\ \A i \in 2 .. Len(text) - 1 : text[i].t \notin { "{", "}", "prose" }

\* the positions, from 1, of the first opening and the last closing brace
BracePositions(text) ==
    { << i, j >> \in (1 .. Len(text)) \X (1 .. Len(text)) :
        /\ text[i].t = "{"
        /\ \A k \in 1 .. i - 1 : text[k].t # "{"
        /\ text[j].t = "}"
        /\ \A k \in j + 1 .. Len(text) : text[k].t # "}" }

\* the answer has a first opening brace, a last closing brace after it, and
\* the text from the one to the other is no JSON object
IsUnparsableAnswer(text) ==
    \E b \in BracePositions(text) :
        /\ b[1] < b[2]
        /\ ~IsObjectText(SubSeq(text, b[1], b[2]))

\* C21: when the answer of the collaborator has a first opening and a last
\* closing brace and the text between them is no structured object,
\* analyze_facility does not raise and returns the minimal result:
\* lead_score 0 and the answer as raw_analysis
C21_ParseFailureMinimalResult ==
    (/\ fn_out # None
     /\ fn_in[1].client
     /\ ~fn_in[1].ai_answer.raised
     /\ IsUnparsableAnswer(fn_in[1].ai_answer.value)) =>
        /\ ~fn_out[1].raised
        /\ "raw_analysis" \in DOMAIN fn_out[1].value
        /\ fn_out[1].value.raw_analysis = fn_in[1].ai_answer.value
        /\ fn_out[1].value.lead_score = 0

C21_Witness ==
    /\ fn_out # None
    /\ fn_in[1].client
    /\ ~fn_in[1].ai_answer.raised
    /\ fn_in[1].ai_answer.value = << OpenBrace, Prose, CloseBrace >>
    /\ ~fn_out[1].raised
    /\ "raw_analysis" \in DOMAIN fn_out[1].value
    /\ fn_out[1].value.lead_score = 0

\* ------------------------------------------------------------------------
\* Lead ranking (score_leads and analyze_multiple_facilities)
\* ------------------------------------------------------------------------

\* number of analyses handed to score_leads
MaxLeads == 3

Reverse(s) == [i \in 1 .. Len(s) |-> s[Len(s) + 1 - i]]

\* one step of a stable ascending sort of positions by their keys: x goes
\* behind every position whose key is not greater
InsertStable(sorted, x, keys) ==
    LET pos == Cardinality({ i \in 1 .. Len(sorted) :
                               keys[sorted[i]] <= keys[x] })
    IN  SubSeq(sorted, 1, pos) \o << x >> \o SubSeq(sorted, pos + 1, Len(sorted))

RECURSIVE StableSortAsc(_, _)
StableSortAsc(order, keys) ==
    IF order = << >>
    THEN << >>
    ELSE InsertStable(StableSortAsc(SubSeq(order, 1, Len(order) - 1), keys),
                      order[Len(order)], keys)

\* a reverse sort that sorts ascending and reverses the result only
SortReverseFlipsTies(keys) ==
    Reverse(StableSortAsc([i \in 1 .. Len(keys) |-> i], keys))

\* list.sort(key=..., reverse=True): the list is reversed, sorted ascending
\* by a stable sort, and reversed again; the result is the sequence of the
\* positions the elements had in the list
SortReverse(keys) ==
    Reverse(StableSortAsc(Reverse([i \in 1 .. Len(keys) |-> i]), keys))

\* the analyses score_leads gets: results of analyze_facility, complete ones
\* and the minimal one of a parse failure
FullAnalysis(facility_name, lead_score) ==
    [facility_name |-> Some(facility_name),
     url |-> Some("https://example-clinic.com"),
     analyzed_at |-> Timestamp,
     lead_score |-> lead_score,
     urgency |-> "medium",
     revenue_opportunities |->
         << "Improved online presence", "Better contact methods" >>,
     operational_gaps |-> << "Limited online booking" >>,
     recommended_pitch |->
         "We help healthcare facilities improve patient engagement."]

MinimalAnalysis(facility_name) ==
    [facility_name |-> Some(facility_name),
     url |-> Some("https://example-clinic.com"),
     analyzed_at |-> Timestamp,
     raw_analysis |-> << OpenBrace, Prose, CloseBrace >>,
     lead_score |-> 0]

LeadScores == { 50, 89 }

Analyses ==
    { FullAnalysis(n, v) : n \in FacilityNames, v \in LeadScores } \cup
    { MinimalAnalysis("Clinic A") }

\* the lead score_leads builds from one analysis
Lead(analysis) ==
    [facility_name |-> Get(analysis, "facility_name", None),
     url |-> Get(analysis, "url", None),
     lead_score |-> Get(analysis, "lead_score", 0),
     urgency |-> Get(analysis, "urgency", "medium"),
     revenue_opportunities_count |->
         Len(Get(analysis, "revenue_opportunities", << >>)),
     operational_gaps_count |-> Len(Get(analysis, "operational_gaps", << >>)),
     recommended_pitch |-> Get(analysis, "recommended_pitch", ""),
     rank |-> 0]

score_leads(analyses) ==
    LET scored_leads == [i \in 1 .. Len(analyses) |-> Lead(analyses[i])]
        order == SortReverse([i \in 1 .. Len(analyses) |->
                                 scored_leads[i].lead_score])
    IN  [i \in 1 .. Len(analyses) |->
            [scored_leads[order[i]] EXCEPT !.rank = i]]

InitRanker ==
    /\ InitCalls
    /\ do_not_call_list = _load_do_not_call_list
    /\ fn_in \in { Some([analyses |-> a]) :
                      a \in UNION { [1 .. n -> Analyses] : n \in 0 .. MaxLeads } }
    /\ fn_out = None

EvalRanker ==
    /\ fn_out = None
    /\ fn_out' = Some(score_leads(fn_in[1].analyses))
    /\ UNCHANGED fn_in
    /\ UNCHANGED << callVars, jobVars >>

NextRanker == EvalRanker

SpecRanker == InitRanker /\ [][NextRanker]_vars

\* the one-to-one maps of output positions to input positions
Bijections(n) ==
    { f \in [1 .. n -> 1 .. n] : \A i, j \in 1 .. n : f[i] = f[j] => i = j }

\* C22: score_leads returns the leads of its input, each once, in descending
\* lead_score order, leads of equal score in their input order, and the
\* lead at output position i has rank i
C22_RankedLeads ==
    fn_out # None =>
        LET analyses == fn_in[1].analyses
            leads == fn_out[1]
            n == Len(analyses)
        IN  /\ Len(leads) = n
            /\ \A i \in 1 .. n : leads[i].rank = i
            /\ \E f \in Bijections(n) :
                  /\ \A i \in 1 .. n :
                        /\ leads[i].facility_name = analyses[f[i]].facility_name
                        /\ leads[i].lead_score = analyses[f[i]].lead_score
                  /\ \A i, j \in 1 .. n :
                        i < j =>
                            \/ leads[i].lead_score > leads[j].lead_score
                            \/ /\ leads[i].lead_score = leads[j].lead_score
                               /\ f[i] < f[j]

C22_Witness ==
    /\ fn_out # None
    /\ Len(fn_in[1].analyses) = 3
    /\ fn_in[1].analyses[1] = FullAnalysis("Clinic A", 50)
    /\ fn_in[1].analyses[2] = FullAnalysis("Clinic B", 50)
    /\ fn_in[1].analyses[3] = FullAnalysis("Clinic A", 89)
    /\ fn_out[1][1].lead_score = 89
    /\ fn_out[1][2].facility_name = Some("Clinic A")
    /\ fn_out[1][3].facility_name = Some("Clinic B")
    /\ fn_out[1][3].rank = 3

\* ------------------------------------------------------------------------
\* Website quality (scrapex-backend/healthcare_scraper.py)
\* ------------------------------------------------------------------------

\* the checks of _assess_website_quality, in the order of the dict
CheckOrder ==
    << "has_title", "has_meta_description", "has_contact_info", "has_address",
       "has_images", "has_services_info", "is_mobile_responsive", "has_ssl",
       "has_social_links", "has_navigation" >>

CheckNames == { CheckOrder[i] : i \in 1 .. Len(CheckOrder) }

\* what the page shows for every check that looks at the page
Soups == [CheckNames \ { "has_ssl" } -> BOOLEAN]

max_score == 10

\* bits of the significand of a Python float
SignificandBits == 53

RECURSIVE Pow2(_)
Pow2(n) == IF n = 0 THEN 1 ELSE 2 * Pow2(n - 1)

RECURSIVE Pow2Mod(_, _)
\* 2^n modulo m
Pow2Mod(n, m) == IF n = 0 THEN 1 % m ELSE (2 * Pow2Mod(n - 1, m)) % m

\* the integer nearest to num / den, a half going to the even one
RoundHalfEven(num, den) ==
    LET low == num \div den
        rest == num - low * den
    IN  IF 2 * rest < den THEN low
        ELSE IF 2 * rest > den THEN low + 1
        ELSE IF low % 2 = 0 THEN low ELSE low + 1

\* the least n with k * 2^n >= d, for 0 < k <= d
RECURSIVE ShiftUp(_, _, _)
ShiftUp(k, d, n) == IF k * Pow2(n) >= d THEN n ELSE ShiftUp(k, d, n + 1)

\* the greatest b with 2^b <= v, for v >= 1
RECURSIVE Log2(_, _)
Log2(v, b) == IF Pow2(b + 1) > v THEN b ELSE Log2(v, b + 1)

\* quality_score / max_score in float arithmetic, for 0 < k <= d: the float
\* is k / d + (err / d) * 2^-(bits), where bits = SignificandBits - 1 + shift
\* and err / d is the rounding error in units of the last place
FloatQuotient(k, d) ==
    LET shift == ShiftUp(k, d, 0)
        bits == SignificandBits - 1 + shift
        rest == (k * Pow2Mod(bits, d)) % d
        \* the significand is floor(k * 2^bits / d), odd or even
        low_odd == ((k * Pow2Mod(bits, 2 * d)) % (2 * d)) \div d = 1
        up == \/ 2 * rest > d
              \/ 2 * rest = d /\ low_odd
    IN  [shift |-> shift, err |-> IF up THEN d - rest ELSE -rest]

\* a percentage that rounds to the next float above the exact value
PercentageRoundsUp(quality_score) ==
    IF quality_score = 0
    THEN [whole |-> 0, ulps |-> 0]
    ELSE [whole |-> (quality_score * 100) \div max_score, ulps |-> 1]

\* (quality_score / max_score) * 100 in float arithmetic: the float is
\* whole + ulps units of the last place of whole
Percentage(quality_score) ==
    IF quality_score = 0
    THEN [whole |-> 0, ulps |-> 0]
    ELSE LET q == FloatQuotient(quality_score, max_score)
             whole == (quality_score * 100) \div max_score
             \* the exact product is whole + (100 * err / max_score) units of
             \* the last place of the quotient
             grow == q.shift + Log2(whole, 0)
         IN  [whole |-> whole,
              ulps |-> RoundHalfEven(100 * q.err, max_score * Pow2(grow))]

\* sum(checks.values()) without the has_ssl check
QualityScoreOfPage(checks) ==
    Sum([i \in 1 .. Len(CheckOrder) |->
            IF checks[CheckOrder[i]] /\ CheckOrder[i] # "has_ssl"
            THEN 1 ELSE 0])

\* sum(checks.values()): True counts 1
QualityScore(checks) ==
    Sum([i \in 1 .. Len(CheckOrder) |->
            IF checks[CheckOrder[i]] THEN 1 ELSE 0])

_assess_website_quality(soup) ==
    LET checks == [c \in CheckNames |->
                      IF c = "has_ssl" THEN TRUE ELSE soup[c]]
        quality_score == QualityScore(checks)
    IN  [score |-> quality_score,
         max_score |-> max_score,
         percentage |-> Percentage(quality_score),
         checks |-> checks]

InitQuality ==
    /\ InitCalls
    /\ do_not_call_list = _load_do_not_call_list
    /\ fn_in \in { Some([soup |-> s]) : s \in Soups }
    /\ fn_out = None

EvalQuality ==
    /\ fn_out = None
    /\ fn_out' = Some(_assess_website_quality(fn_in[1].soup))
    /\ UNCHANGED fn_in
    /\ UNCHANGED << callVars, jobVars >>

NextQuality == EvalQuality

SpecQuality == InitQuality /\ [][NextQuality]_vars

\* C23: the quality assessment has score = number of true checks,
\* max_score = 10 and percentage = 10 * score, a value within 0..100
C23_QualityAssessment ==
    fn_out # None =>
        LET quality == fn_out[1]
            count == Cardinality({ c \in CheckNames : quality.checks[c] })
        IN  /\ DOMAIN quality.checks = CheckNames
            /\ quality.score = count
            /\ quality.max_score = 10
            /\ quality.percentage.whole = 10 * count
            /\ quality.percentage.ulps = 0
            /\ quality.percentage.whole \in 0 .. 100

C23_Witness ==
    /\ fn_out # None
    /\ fn_in[1].soup["has_title"]
    /\ fn_in[1].soup["has_navigation"]
    /\ fn_out[1].score = 3
    /\ fn_out[1].percentage = [whole |-> 30, ulps |-> 0]

\* ------------------------------------------------------------------------
\* Results of scrape_facility_website
\* ------------------------------------------------------------------------

\* what scrape_facility_website returns when the request failed
ErrorRecord(url) ==
    [url |-> Some(url), error |-> "RequestException", scraped_at |-> Timestamp]

\* a scraped facility with a phone, and with address and services or not
ScrapedFacility(url, complete) ==
    [facility_name |-> Some("Clinic A"),
     url |-> Some(url),
     phone |-> << "(555) 123-4567" >>,
     address |-> IF complete THEN Some("123 Main St") ELSE None,
     services |-> IF complete THEN << "Primary Care" >> ELSE << >>,
     website_quality |-> [percentage |-> 40]]

\* ------------------------------------------------------------------------
\* Jobs (scrapex-backend/main.py)
\* ------------------------------------------------------------------------

\* number of jobs created
MaxJobs == 2

\* the values of the limit parameter of list_jobs
Limits == -1 .. MaxJobs + 1

RECURSIVE DecimalDigits(_)
\* the decimal digits of n >= 0
DecimalDigits(n) ==
    IF n < 10 THEN << n >> ELSE Append(DecimalDigits(n \div 10), n % 10)

\* f"{n:06d}": the digits, with zeros in front up to six places
ZeroPadded(n) ==
    LET digits == DecimalDigits(n)
    IN  IF Len(digits) >= 6
        THEN digits
        ELSE [i \in 1 .. 6 - Len(digits) |-> 0] \o digits

\* f"job_{job_counter:06d}"
JobId(n) == [prefix |-> "job_", digits |-> ZeroPadded(n)]

\* the job a POST endpoint stores
NewJob(job_id, type) ==
    [id |-> job_id,
     type |-> type,
     status |-> "processing",
     created_at |-> Timestamp,
     result |-> None,
     error |-> None]

\* jobs_db[job_id] = job: a key of the dict keeps its place, a new key goes
\* to the end
PutJob(db, job_id, job) ==
    IF \E i \in 1 .. Len(db) : db[i].id = job_id
    THEN [i \in 1 .. Len(db) |-> IF db[i].id = job_id THEN job ELSE db[i]]
    ELSE Append(db, job)

\* the body of the three POST endpoints: a new id, the job, the task and
\* the response
StartJob(type, task) ==
    /\ job_counter < MaxJobs
    /\ job_counter' = job_counter + 1
    /\ jobs_db' = PutJob(jobs_db, JobId(job_counter'),
                         NewJob(JobId(job_counter'), type))
    /\ background_tasks' =
           background_tasks \cup { [task |-> task, job_id |-> JobId(job_counter')] }
    /\ jobs_response' = Some([op |-> "start",
                              job_id |-> Some(JobId(job_counter')),
                              status |-> "processing",
                              limit |-> 0, total |-> 0, jobs |-> << >>])
    /\ UNCHANGED scrape_result
    /\ UNCHANGED << callVars, fnVars >>

scrape_facility == StartJob("scrape", "_process_scrape_job")

bulk_scrape == StartJob("bulk_scrape", "_process_bulk_scrape_job")

post_analyze == StartJob("analysis", "_process_analysis_job")

\* a task that sets the status and leaves the job among the pending tasks
FinishJobKeepsTask(task, raised, result) ==
    /\ \E t \in background_tasks :
          /\ t.task = task
          /\ jobs_db' =
                 [i \in 1 .. Len(jobs_db) |->
                     IF jobs_db[i].id = t.job_id
                     THEN IF raised
                          THEN [jobs_db[i] EXCEPT !.status = "failed",
                                                  !.error = Some("error")]
                          ELSE [jobs_db[i] EXCEPT !.status = "completed",
                                                  !.result = Some(result)]
                     ELSE jobs_db[i]]
          /\ background_tasks' = background_tasks
    /\ UNCHANGED << job_counter, jobs_response >>
    /\ UNCHANGED << callVars, fnVars >>

\* the body of the three background tasks: the work returns and the job is
\* completed with its result, or the work raises and the job is failed
\* with the error; the task has run and is gone
FinishJob(task, raised, result) ==
    /\ \E t \in background_tasks :
          /\ t.task = task
          /\ jobs_db' =
                 [i \in 1 .. Len(jobs_db) |->
                     IF jobs_db[i].id = t.job_id
                     THEN IF raised
                          THEN [jobs_db[i] EXCEPT !.status = "failed",
                                                  !.error = Some("error")]
                          ELSE [jobs_db[i] EXCEPT !.status = "completed",
                                                  !.result = Some(result)]
                     ELSE jobs_db[i]]
          /\ background_tasks' = background_tasks \ { t }
    /\ UNCHANGED << job_counter, jobs_response >>
    /\ UNCHANGED << callVars, fnVars >>

\* the url of the scrape requests
JobUrl == "https://a.example"

\* what scraper.scrape_facility_website(url) does: it returns the facility
\* data, or the error value when the request failed, or it raises (any
\* exception that is no RequestException)
ScrapeOutcomes(url) ==
    { Returned(ScrapedFacility(url, TRUE)),
      Returned(ErrorRecord(url)),
      Raised(<< >>) }

\* _process_scrape_job that fails the job when the scraper returned an
\* error value
_process_scrape_job_fails_on_error_value ==
    \E outcome \in ScrapeOutcomes(JobUrl) :
        /\ FinishJob("_process_scrape_job",
                     outcome.raised \/ "error" \in DOMAIN outcome.value,
                     outcome.value)
        /\ scrape_result' = Some(outcome)

_process_scrape_job ==
    \E outcome \in ScrapeOutcomes(JobUrl) :
        /\ FinishJob("_process_scrape_job", outcome.raised, outcome.value)
        /\ scrape_result' = Some(outcome)

_process_bulk_scrape_job ==
    \E raised \in BOOLEAN :
        /\ FinishJob("_process_bulk_scrape_job", raised, [results |-> << >>])
        /\ UNCHANGED scrape_result

_process_analysis_job ==
    \E raised \in BOOLEAN :
        /\ FinishJob("_process_analysis_job", raised,
                     [lead_score |-> 50, urgency |-> "medium"])
        /\ UNCHANGED scrape_result

\* xs[start:] of Python: a negative start counts from the end, and both
\* ends are clipped to the list
SliceFrom(xs, start) ==
    LET from == IF start < 0
                THEN (IF Len(xs) + start < 0 THEN 0 ELSE Len(xs) + start)
                ELSE (IF start > Len(xs) THEN Len(xs) ELSE start)
    IN  SubSeq(xs, from + 1, Len(xs))

list_jobs(limit) ==
    /\ jobs_response' = Some([op |-> "list_jobs",
                              job_id |-> None,
                              status |-> "",
                              limit |-> limit,
                              total |-> Len(jobs_db),
                              jobs |-> SliceFrom(jobs_db, -limit)])
    /\ UNCHANGED << jobs_db, job_counter, background_tasks, scrape_result >>
    /\ UNCHANGED << callVars, fnVars >>

NextJobs ==
    \/ scrape_facility
    \/ bulk_scrape
    \/ post_analyze
    \/ _process_scrape_job
    \/ _process_bulk_scrape_job
    \/ _process_analysis_job
    \/ \E limit \in Limits : list_jobs(limit)

SpecJobs == Init /\ [][NextJobs]_vars

\* C24: list_jobs(limit) with limit >= 0 returns at most limit jobs, the
\* last created ones in creation order, and total is the number of all jobs
C24_ListJobsLimit ==
    [][(/\ jobs_response' # jobs_response
        /\ jobs_response' # None
        /\ jobs_response'[1].op = "list_jobs"
        /\ jobs_response'[1].limit >= 0) =>
           LET r == jobs_response'[1]
               n == Len(jobs_db)
               k == IF r.limit < n THEN r.limit ELSE n
           IN  /\ r.total = n
               /\ Len(r.jobs) <= r.limit
               /\ r.jobs = SubSeq(jobs_db, n - k + 1, n)]_vars

\* ------------------------------------------------------------------------
\* Properties of the call paths and of the gate
\* ------------------------------------------------------------------------

\* C25: on the path with a telephony client the record is initiated and has
\* its started_at when the call is submitted to the collaborator; when the
\* submission succeeds the response has success = true and the handle of
\* the collaborator, and the record appended is initiated with ended_at,
\* duration and transcript unset
C25_InitiatedThenSubmitted ==
    [][ /\ Len(twilio_calls') > Len(twilio_calls) =>
              /\ call_record[1].status = INITIATED
              /\ call_record[1].started_at # None
        /\ (twilio_client /\ Len(call_history') > Len(call_history)) =>
              LET c == call_history'[Len(call_history')]
              IN  /\ response'[1].value.success
                  /\ response'[1].value.twilio_call_sid = TwilioSid
                  /\ c.status = INITIATED
                  /\ c.ended_at = None
                  /\ c.duration = None
                  /\ c.call_transcript = None
      ]_vars

\* the combinations of status, outcome and duration the simulator has
SimulatorCombinations ==
    { [status |-> "completed", outcome |-> "interested", duration |-> 180],
      [status |-> "completed", outcome |-> "not_interested", duration |-> 45],
      [status |-> "no_answer", outcome |-> "no_answer", duration |-> 0],
      [status |-> "voicemail", outcome |-> "voicemail", duration |-> 30] }

\* the record carries one of the combinations of the simulator
HasSimulatorCombination(c) ==
    \E o \in SimulatorCombinations :
        /\ c.status = o.status
        /\ c.outcome = Some(o.outcome)
        /\ c.duration = Some(o.duration)

\* C26: every record the simulator produced, in the history or about to be
\* stored, carries one of the four combinations (completed, interested,
\* 180), (completed, not_interested, 45), (no_answer, no_answer, 0),
\* (voicemail, voicemail, 30)
C26_SimulatorOutcomes ==
    ~twilio_client =>
        /\ \A i \in 1 .. Len(call_history) :
              HasSimulatorCombination(call_history[i])
        /\ pc = "done" => HasSimulatorCombination(call_record[1])

C26_Witness ==
    /\ ~twilio_client
    /\ Len(call_history) = 2
    /\ call_history[1].outcome = Some("not_interested")
    /\ call_history[1].duration = Some(45)
    /\ call_history[2].status = VOICEMAIL
    /\ call_history[2].duration = Some(30)

\* the result the gate has for a number, an hour and a do-not-call set
GateResultFor(phone_number, current_hour, dnc) ==
    LET dnc_check == phone_number \notin dnc
        format_check == _is_valid_phone(phone_number)
        hours_check == current_hour \in 8 .. 20
    IN  [can_call |-> dnc_check /\ format_check /\ hours_check,
         checks |-> [dnc_check |-> dnc_check,
                     format_check |-> format_check,
                     hours_check |-> hours_check]]

\* C27: the result of is_compliant_to_call is fixed by the number, the hour
\* and the do-not-call set, whatever the history holds; the evaluation
\* leaves the history and the do-not-call set alone, and no operation
\* changes the do-not-call set
C27_GateIsPure ==
    [][ /\ do_not_call_list' = do_not_call_list
        /\ (pc = "called" /\ pc' = "checked") =>
              /\ call_history' = call_history
              /\ \E h \in Hours :
                    LET expected == GateResultFor(request[1].phone_number, h,
                                                  do_not_call_list)
                    IN  /\ compliance'[1].can_call = expected.can_call
                        /\ compliance'[1].checks = expected.checks
      ]_vars

\* the gate was evaluated after a call had been stored, with a do-not-call
\* set that holds a number
C27_Witness ==
    /\ pc = "checked"
    /\ Len(call_history) >= 1
    /\ do_not_call_list # {}
    /\ ~compliance[1].can_call
    /\ request[1].phone_number = call_history[1].phone_number

\* C30: no record of the history is pending, ringing, in_progress, declined
\* or failed: the simulator stores completed, no_answer and voicemail
\* records, the telephony path stores initiated records, and the
\* failed_calls of get_call_statistics is 0
C30_NoFailedRecords ==
    /\ \A i \in 1 .. Len(call_history) :
          /\ call_history[i].status
                \notin { PENDING, RINGING, IN_PROGRESS, DECLINED, FAILED }
          /\ ~twilio_client =>
                call_history[i].status \in { COMPLETED, NO_ANSWER, VOICEMAIL }
          /\ twilio_client => call_history[i].status = INITIATED
    /\ IsStatisticsResponse => response[1].value.failed_calls = 0

\* statistics were read after a submission had failed and another had been
\* accepted
C30_Witness ==
    /\ IsStatisticsResponse
    /\ twilio_client
    /\ compliant_calls = 2
    /\ response[1].value.total_calls = 1
    /\ response[1].value.failed_calls = 0

\* ------------------------------------------------------------------------
\* analyze_multiple_facilities
\* ------------------------------------------------------------------------

\* number of scrape results handed to analyze_multiple_facilities
MaxFacilities == 3

\* the scrape results of a batch: two facilities that score alike, one that
\* scores higher, and a failed request
ScrapeResults ==
    { ScrapedFacility("https://a.example", FALSE),
      ScrapedFacility("https://b.example", FALSE),
      ScrapedFacility("https://c.example", TRUE),
      ErrorRecord("https://a.example") }

\* what the collaborator does for one facility of a batch
BatchAiAnswers ==
    { Raised(<< >>),
      Returned(<< OpenBrace, LeadScoreMember(85), CloseBrace >>) }

RECURSIVE WithoutError(_, _)
\* the positions, from i on, of the facilities without an 'error' key
WithoutError(facilities_data, i) ==
    IF i > Len(facilities_data)
    THEN << >>
    ELSE (IF "error" \notin DOMAIN facilities_data[i] THEN << i >> ELSE << >>)
         \o WithoutError(facilities_data, i + 1)

\* analyze_multiple_facilities that leaves the analyses in input order
analyze_multiple_facilities_unsorted(client, ai_answers, facilities_data) ==
    LET kept == WithoutError(facilities_data, 1)
    IN  [j \in 1 .. Len(kept) |->
            analyze_facility(client, ai_answers[kept[j]],
                             facilities_data[kept[j]]).value]

\* analyze_multiple_facilities: ai_answers[i] is what the collaborator does
\* when it is asked about facilities_data[i]
analyze_multiple_facilities(client, ai_answers, facilities_data) ==
    LET kept == WithoutError(facilities_data, 1)
        analyses == [j \in 1 .. Len(kept) |->
                        analyze_facility(client, ai_answers[kept[j]],
                                         facilities_data[kept[j]]).value]
        order == SortReverse([j \in 1 .. Len(kept) |->
                                 Get(analyses[j], "lead_score", 0)])
    IN  [j \in 1 .. Len(kept) |-> analyses[order[j]]]

InitBatch ==
    /\ InitCalls
    /\ do_not_call_list = _load_do_not_call_list
    /\ fn_in \in { Some([client |-> c, ai_answers |-> a, facilities_data |-> f]) :
                      c \in BOOLEAN,
                      << a, f >> \in UNION { [1 .. n -> BatchAiAnswers] \X
                                             [1 .. n -> ScrapeResults] :
                                             n \in 0 .. MaxFacilities } }
    /\ fn_out = None

EvalBatch ==
    /\ fn_out = None
    /\ fn_out' = Some(analyze_multiple_facilities(fn_in[1].client,
                                                  fn_in[1].ai_answers,
                                                  fn_in[1].facilities_data))
    /\ UNCHANGED fn_in
    /\ UNCHANGED << callVars, jobVars >>

NextBatch == EvalBatch

SpecBatch == InitBatch /\ [][NextBatch]_vars

\* C28: analyze_multiple_facilities returns one analysis for every input
\* without an error value and none for an input with one, in descending
\* lead_score order, equal scores in input order
C28_BatchSkipsErrors ==
    fn_out # None =>
        LET facilities == fn_in[1].facilities_data
            analyses == fn_out[1]
            n == Len(facilities)
            m == Len(analyses)
            good == { i \in 1 .. n : "error" \notin DOMAIN facilities[i] }
        IN  /\ m = Cardinality(good)
            /\ \E f \in [1 .. m -> 1 .. n] :
                  /\ \A i, j \in 1 .. m : f[i] = f[j] => i = j
                  /\ \A i \in 1 .. m :
                        /\ f[i] \in good
                        /\ analyses[i].url = facilities[f[i]].url
                  /\ \A i, j \in 1 .. m :
                        i < j =>
                            \/ analyses[i].lead_score > analyses[j].lead_score
                            \/ /\ analyses[i].lead_score = analyses[j].lead_score
                               /\ f[i] < f[j]

\* a batch of two facilities that score alike around a failed request, the
\* collaborator failing for both
C28_Witness ==
    /\ fn_out # None
    /\ fn_in[1].client
    /\ fn_in[1].facilities_data =
          << ScrapedFacility("https://b.example", FALSE),
             ErrorRecord("https://a.example"),
             ScrapedFacility("https://a.example", FALSE) >>
    /\ fn_in[1].ai_answers[1].raised
    /\ fn_in[1].ai_answers[3].raised
    /\ Len(fn_out[1]) = 2
    /\ fn_out[1][1].url = Some("https://b.example")
    /\ fn_out[1][2].url = Some("https://a.example")
    /\ fn_out[1][1].lead_score = 64

\* ------------------------------------------------------------------------
\* Properties of the jobs
\* ------------------------------------------------------------------------

\* the event loop runs every background task that was added
FairSpecJobs ==
    /\ SpecJobs
    /\ WF_vars(_process_scrape_job)
    /\ WF_vars(_process_bulk_scrape_job)
    /\ WF_vars(_process_analysis_job)

\* C29: a job is created with status processing under an id no earlier job
\* has; its status changes once, to completed or failed, and not again;
\* and when the background tasks are run, every job leaves processing
C29_JobLifecycle ==
    /\ [][ /\ Len(jobs_db') >= Len(jobs_db)
           /\ \A i \in 1 .. Len(jobs_db') :
                 IF i > Len(jobs_db)
                 THEN /\ jobs_db'[i].status = "processing"
                      /\ \A j \in 1 .. Len(jobs_db') :
                            j # i => jobs_db'[j].id # jobs_db'[i].id
                 ELSE /\ jobs_db'[i].id = jobs_db[i].id
                      /\ jobs_db[i].status = "processing" =>
                            jobs_db'[i].status
                                \in { "processing", "completed", "failed" }
                      /\ jobs_db[i].status # "processing" =>
                            jobs_db'[i].status = jobs_db[i].status
         ]_vars
    /\ \A n \in 1 .. MaxJobs :
          (Len(jobs_db) >= n) ~>
              (Len(jobs_db) >= n /\ jobs_db[n].status # "processing")

\* one job was completed and the next one failed, and no task is left
C29_Witness ==
    /\ Len(jobs_db) = 2
    /\ jobs_db[1].status = "completed"
    /\ jobs_db[2].status = "failed"
    /\ jobs_db[1].id # jobs_db[2].id
    /\ background_tasks = {}

\* ------------------------------------------------------------------------
\* Properties across the components
\* ------------------------------------------------------------------------

\* C31: when trigger_call returns success = true, the call_id it returns is
\* the id of the record this invocation appended to the history, and the
\* status it returns is the status of that record at the return
C31_ResponseNamesStoredRecord ==
    [][(/\ pc # "idle"
        /\ pc' = "idle"
        /\ response'[1].value.success) =>
           /\ Len(call_history') = Len(call_history) + 1
           /\ SubSeq(call_history', 1, Len(call_history)) = call_history
           /\ LET c == call_history'[Len(call_history')]
              IN  /\ c = call_record[1]
                  /\ response'[1].value.call_id = Some(c.id)
                  /\ response'[1].value.status = c.status
      ]_vars

\* the second successful call of a manager returned the id and the status
\* of the record it stored last
C31_Witness ==
    /\ IsCallResponse
    /\ response[1].value.success
    /\ pc = "idle"
    /\ Len(call_history) = 2
    /\ response[1].value.call_id = Some(call_history[2].id)
    /\ response[1].value.status = call_history[2].status
    /\ call_history[2].status # INITIATED

\* ------------------------------------------------------------------------
\* _extract_phone (scrapex-backend/healthcare_scraper.py)
\* ------------------------------------------------------------------------

\* number of pieces of text on a page
MaxChunks == 3

\* "(555) 123-4567 "
TextParen ==
    << "(", "5", "5", "5", ")", " ", "1", "2", "3", "-", "4", "5", "6",
       "7", " " >>

\* "Call 555.123.4568 or 555-123-4569, "
TextTwoNumbers ==
    << "C", "a", "l", "l", " ", "5", "5", "5", ".", "1", "2", "3", ".",
       "4", "5", "6", "8", " ", "o", "r", " ", "5", "5", "5", "-", "1",
       "2", "3", "-", "4", "5", "6", "9", ",", " " >>

\* "+1 555 123 4570 fax 5551234571 "
TextPlusAndFax ==
    << "+", "1", " ", "5", "5", "5", " ", "1", "2", "3", " ", "4", "5",
       "7", "0", " ", "f", "a", "x", " ", "5", "5", "5", "1", "2", "3",
       "4", "5", "7", "1", " " >>

\* "1555123457255512345739"
TextDigitRun ==
    << "1", "5", "5", "5", "1", "2", "3", "4", "5", "7", "2", "5", "5",
       "5", "1", "2", "3", "4", "5", "7", "3", "9" >>

\* "ext 123 "
TextExtension ==
    << "e", "x", "t", " ", "1", "2", "3", " " >>

\* the pieces a page text is made of
TextChunks ==
    { TextParen, TextTwoNumbers, TextPlusAndFax, TextDigitRun, TextExtension }

RECURSIVE Concat(_)
Concat(chunks) ==
    IF chunks = << >> THEN << >> ELSE Head(chunks) \o Concat(Tail(chunks))

\* soup.get_text() of the pages
PageTexts ==
    { Concat(c) : c \in UNION { [1 .. n -> TextChunks] : n \in 0 .. MaxChunks } }

\* phone_pattern = \+?1?\s*\(?(\d{3})\)?[-.\s]?(\d{3})[-.\s]?(\d{4}): the
\* items of the pattern of _is_valid_phone, without ^ and $
phone_pattern == pattern

\* no match
NoMatch == [found |-> FALSE, end |-> 0, digits |-> << >>]

RECURSIVE SearchFrom(_, _, _)
\* the match of phone_pattern item k and what follows it at position i of
\* s, as the backtracking of re finds it: an optional or repeated item takes
\* a character first and gives it back when the rest does not match; end is
\* the position after the match, digits are the characters of the \d items
SearchFrom(s, i, k) ==
    IF k > Len(phone_pattern)
    THEN [found |-> TRUE, end |-> i, digits |-> << >>]
    ELSE LET here == i <= Len(s) /\ s[i] \in phone_pattern[k].cls
             skip == SearchFrom(s, i, k + 1)
         IN  CASE phone_pattern[k].q = "one" ->
                    IF here
                    THEN LET rest == SearchFrom(s, i + 1, k + 1)
                         IN  IF rest.found
                             THEN [rest EXCEPT !.digits = << s[i] >> \o @]
                             ELSE NoMatch
                    ELSE NoMatch
               [] phone_pattern[k].q = "opt" ->
                    IF here /\ SearchFrom(s, i + 1, k + 1).found
                    THEN SearchFrom(s, i + 1, k + 1)
                    ELSE skip
               [] phone_pattern[k].q = "star" ->
                    IF here /\ SearchFrom(s, i + 1, k).found
                    THEN SearchFrom(s, i + 1, k)
                    ELSE skip

RECURSIVE FindAll(_, _)
\* re.findall(phone_pattern, text): the groups of the matches from left to
\* right, each search starting where the match before ended
FindAll(text, pos) ==
    IF pos > Len(text)
    THEN << >>
    ELSE LET m == SearchFrom(text, pos, 1)
         IN  IF m.found
             THEN << << SubSeq(m.digits, 1, 3), SubSeq(m.digits, 4, 6),
                        SubSeq(m.digits, 7, 10) >> >>
                  \o FindAll(text, m.end)
             ELSE FindAll(text, pos + 1)

\* a phone written with blanks around the dash
FormatPhoneSpacedDash(match) ==
    << "(" >> \o match[1] \o << ")", " " >> \o match[2] \o << " ", "-", " " >>
    \o match[3]

\* f"({match[0]}) {match[1]}-{match[2]}"
FormatPhone(match) ==
    << "(" >> \o match[1] \o << ")", " " >> \o match[2] \o << "-" >> \o match[3]

RECURSIVE Unique(_, _)
\* the loop of _extract_phone: a phone is appended when it is not in phones
Unique(matches, phones) ==
    IF matches = << >>
    THEN phones
    ELSE LET phone == FormatPhone(Head(matches))
         IN  Unique(Tail(matches),
                    IF \E i \in 1 .. Len(phones) : phones[i] = phone
                    THEN phones
                    ELSE Append(phones, phone))

\* phones[:5]
_extract_phone(text) ==
    LET phones == Unique(FindAll(text, 1), << >>)
    IN  SubSeq(phones, 1, IF Len(phones) < 5 THEN Len(phones) ELSE 5)

InitExtract ==
    /\ InitCalls
    /\ do_not_call_list = _load_do_not_call_list
    /\ fn_in \in { Some([text |-> t]) : t \in PageTexts }
    /\ fn_out = None

EvalExtract ==
    /\ fn_out = None
    /\ fn_out' = Some(_extract_phone(fn_in[1].text))
    /\ UNCHANGED fn_in
    /\ UNCHANGED << callVars, jobVars >>

NextExtract == EvalExtract

SpecExtract == InitExtract /\ [][NextExtract]_vars

\* the text has the form (ddd) ddd-dddd
IsNormalizedPhone(p) ==
    /\ Len(p) = 14
    /\ p[1] = "(" /\ p[5] = ")" /\ p[6] = " " /\ p[10] = "-"
    /\ \A i \in { 2, 3, 4, 7, 8, 9, 11, 12, 13, 14 } : p[i] \in Digit

\* C32: the phones the scraper extracts from a page have the form
\* (ddd) ddd-dddd, are at most 5 and all different, and every one of them
\* passes the format check of the gate
C32_ExtractedPhonesPassGate ==
    fn_out # None =>
        LET phones == fn_out[1]
        IN  /\ Len(phones) <= 5
            /\ \A i, j \in 1 .. Len(phones) : phones[i] = phones[j] => i = j
            /\ \A i \in 1 .. Len(phones) :
                  /\ IsNormalizedPhone(phones[i])
                  /\ _is_valid_phone(phones[i])

\* a page with six different numbers: the first five are extracted, in the
\* order they were seen
C32_Witness ==
    /\ fn_out # None
    /\ fn_in[1].text = TextTwoNumbers \o TextPlusAndFax \o TextDigitRun
    /\ Len(FindAll(fn_in[1].text, 1)) = 6
    /\ Len(fn_out[1]) = 5
    /\ fn_out[1][1] =
          << "(", "5", "5", "5", ")", " ", "1", "2", "3", "-", "4", "5", "6", "8" >>
    /\ \A i \in 1 .. 5 : _is_valid_phone(fn_out[1][i])

\* C33: a scrape job is failed only when the scraper raised; when the
\* request failed the scraper returns an error value, and the job is
\* completed with that value as its result and its own error unset
C33_ScrapeErrorCompletesJob ==
    [][ \A i \in 1 .. Len(jobs_db) :
          (/\ jobs_db[i].type = "scrape"
           /\ jobs_db[i].status = "processing"
           /\ jobs_db'[i].status # "processing") =>
              LET outcome == scrape_result'[1]
                  job == jobs_db'[i]
              IN  /\ job.status = "failed" <=> outcome.raised
                  /\ job.status = "failed" =>
                        job.result = None /\ job.error # None
                  /\ (~outcome.raised /\ "error" \in DOMAIN outcome.value) =>
                        /\ job.status = "completed"
                        /\ job.result = Some(outcome.value)
                        /\ job.result[1] = ErrorRecord(JobUrl)
                        /\ job.error = None
      ]_vars

\* a scrape job was completed with the error value of a failed request,
\* and another one failed
C33_Witness ==
    /\ Len(jobs_db) = 2
    /\ jobs_db[1].type = "scrape"
    /\ jobs_db[1].status = "completed"
    /\ jobs_db[1].result = Some(ErrorRecord(JobUrl))
    /\ jobs_db[1].error = None
    /\ jobs_db[2].type = "scrape"
    /\ jobs_db[2].status = "failed"

====
